---- MODULE Spec2Model ----
(***************************************************************************)
(* console-share: two bridge engines.                                      *)
(*                                                                         *)
(*  - Proxy (src/src/console_share/proxy.py): the synchronous registry of  *)
(*    socat bridges, active_proxies / socket_paths, with proxy_shell,      *)
(*    proxy_console, stop_proxy, list_active and cleanup.  Specification   *)
(*    Spec.                                                                *)
(*  - IncusConsoleProxy.start_proxy under ProxyManager                     *)
(*    (src/console_share/__init__.py): the asyncio supervision loop with   *)
(*    bounded retry.  Specifications SupSpec and SupFairSpec.              *)
(*                                                                         *)
(* Strings whose characters matter (instance names, registry keys) are     *)
(* tuples of one-character strings, so that Python's `in`, `split` and     *)
(* f-string concatenation are computed, not assumed.                       *)
(***************************************************************************)
EXTENDS Integers, Sequences, FiniteSets, TLC

VARIABLES
    active_proxies,  \* Proxy.active_proxies: key -> pid
    socket_paths,    \* Proxy.socket_paths: instance name -> socket path
    procs,           \* child processes of the Proxy, by pid (index)
    files,           \* the filesystem the Proxy touches: path -> content
    atexit_done,     \* the interpreter has exited and run Proxy.cleanup
    last,            \* the last call on the Proxy and what it returned
    pc,              \* start_proxy of each bridge: where its task stands
    retry_count,     \* IncusConsoleProxy.retry_count
    attempt,         \* start_proxy: the iteration of `while True` it is in
    console_secret,  \* start_proxy's local console_secret (0: unbound), named
                     \* by the attempt whose console request returned it
    process,         \* start_proxy's local `process` (attempt 0: unbound)
    orphans,         \* live children that `process` no longer refers to
    cancel_requested,\* asyncio has cancelled the bridge's task, not yet delivered
    e,               \* start_proxy: the exception `except Exception as e` caught
    exit_status,     \* main(): still running, or the status it exited with
    is_container,    \* IncusConsoleProxy.is_container of the session broker
    broker_last,     \* the last broker call: what the remote answered, the result
    remote,          \* IncusConsoleProxy.remote
    project,         \* IncusConsoleProxy.project
    data,            \* the JSON body of the last request the broker sent
    threads,         \* calls on the Proxy in progress in concurrent threads
    config,          \* Config.config: what the program holds in memory
    config_file,     \* the configuration file on disk (<<>>: there is none)
    cli              \* the console-share command that is running, if any

regVars == <<active_proxies, socket_paths, procs, files, atexit_done, last>>

supVars == <<pc, retry_count, attempt, console_secret, process, orphans,
             cancel_requested, e, exit_status>>

brokerVars == <<is_container, broker_last, remote, project, data>>

concVars == <<threads>>

cliVars == <<config, config_file, cli>>

vars == <<regVars, supVars, brokerVars, concVars, cliVars>>

(***************************************************************************)
(* Bounds                                                                  *)
(***************************************************************************)
MaxProcs == 2

\* start_proxy loops without bound; the model follows it for this many attempts.
MaxAttempts == 5

(***************************************************************************)
(* Program constants                                                       *)
(***************************************************************************)
MAX_RETRIES == 3

(***************************************************************************)
(* Strings                                                                 *)
(***************************************************************************)
shell == <<"s", "h", "e", "l", "l">>
console == <<"c", "o", "n", "s", "o", "l", "e">>
vga == <<"v", "g", "a">>

web == <<"w", "e", "b">>
web1 == <<"w", "e", "b", "1">>
sh == <<"s", "h">>
web2 == <<"w", "e", "b", "2">>

\* The instances of the remote that bridges are started for: name and type as
\* get_instance reports them.
InstanceNames == {web, web1}

\* The instance names stop_proxy is called with: sh is an instance no bridge
\* was started for.
StopNames == InstanceNames \cup {sh}

InstanceType(name) ==
    IF name \in {web1, web2} THEN "virtual-machine" ELSE "container"

\* f"{kind}_{instance.name}"
Key(kind, name) ==
    kind \o <<"_">> \o name

\* Python's `sub in s` on strings.
Contains(sub, s) ==
    \E i \in 0..(Len(s) - Len(sub)) : SubSeq(s, i + 1, i + Len(sub)) = sub

\* key.split("_", 1): the text before the first "_" and the text after it.
Split1(key) ==
    LET first == CHOOSE i \in 1..Len(key) :
                     /\ key[i] = "_"
                     /\ \A j \in 1..(i - 1) : key[j] # "_"
    IN  <<SubSeq(key, 1, first - 1), SubSeq(key, first + 1, Len(key))>>

(***************************************************************************)
(* Partial functions (Python dicts)                                        *)
(***************************************************************************)
Put(d, k, v) ==
    [x \in (DOMAIN d) \cup {k} |-> IF x = k THEN v ELSE d[x]]

Del(d, ks) ==
    [x \in (DOMAIN d) \ ks |-> d[x]]

EmptyDict == [x \in {} |-> 0]

(***************************************************************************)
(* Config (src/src/console_share/config.py)                                *)
(***************************************************************************)
\* DEFAULT_CONFIG: the tables the model reads, proxy.start_port and instances.
DEFAULT_CONFIG ==
    [proxy |-> [start_port |-> 8000], instances |-> EmptyDict]

\* A TOML document with no table, as tomli.load reads an empty file.
EmptyDocument == EmptyDict

\* Config._load_config(): the defaults when there is no file; otherwise
\* {**DEFAULT_CONFIG, **config}, a merge of the top-level tables.
load_config(file) ==
    IF ~file.exists THEN DEFAULT_CONFIG
    ELSE [table \in {"proxy", "instances"} |->
             IF table \in DOMAIN file.doc THEN file.doc[table]
             ELSE DEFAULT_CONFIG[table]]

\* Config.get_next_port(): "TODO: Implement port tracking".
get_next_port ==
    config.proxy.start_port

\* The port proxy_shell and proxy_console listen on when the port argument is
\* omitted: instance_config.get("port") if instance_config else get_next_port().
listen_port(name) ==
    IF name \in DOMAIN config.instances
    THEN config.instances[name].port
    ELSE get_next_port

(***************************************************************************)
(* Child processes                                                         *)
(***************************************************************************)
\* The console client, ["incus", "console", "--type=vga", name]
incus == <<"i", "n", "c", "u", "s">>

\* subprocess.Popen(cmd): a new live child.  prog and inst say what was run;
\* stubborn is whether the child survives SIGTERM for the grace period; port
\* is the TCP-LISTEN port of a socat command (0: the child does not listen).
Popen(prog, inst, stubborn) ==
    [prog |-> prog, inst |-> inst, alive |-> TRUE, stubborn |-> stubborn,
     signals |-> <<>>, port |-> IF prog = incus THEN 0 ELSE listen_port(inst)]

\* process.poll() is None
Running(pid) ==
    procs[pid].alive

\* Mutant of terminate_wait_kill: the wait times out and nobody kills.
terminate_wait_no_kill(p) ==
    IF ~p.alive THEN p
    ELSE IF p.stubborn
         THEN [p EXCEPT !.signals = <<"TERM">>]
         ELSE [p EXCEPT !.alive = FALSE, !.signals = <<"TERM">>]

\* try: process.terminate(); process.wait(timeout=5)
\* except: process.kill()
\* on one process record: SIGTERM first; SIGKILL only when the wait timed out.
terminate_wait_kill(p) ==
    IF ~p.alive THEN p
    ELSE IF p.stubborn
         THEN [p EXCEPT !.alive = FALSE, !.signals = <<"TERM", "KILL">>]
         ELSE [p EXCEPT !.alive = FALSE, !.signals = <<"TERM">>]

Call(op, arg, ok, ret) ==
    [op |-> op, arg |-> arg, ok |-> ok, ret |-> ret]

(***************************************************************************)
(* Proxy                                                                   *)
(***************************************************************************)
\* Proxy.__init__
ProxyInit ==
    /\ active_proxies = EmptyDict
    /\ socket_paths = EmptyDict
    /\ procs = <<>>
    /\ files = EmptyDict
    /\ atexit_done = FALSE
    /\ last = Call("init", <<>>, TRUE, EmptyDict)

\* Proxy.proxy_shell(instance): Popen(socat ...) and register it under
\* shell_<name>; a Popen failure raises ProxyError and registers nothing.
proxy_shell_call(name) ==
    /\ \E popenOk, stubborn \in BOOLEAN :
         IF popenOk
         THEN /\ Len(procs) < MaxProcs
              /\ procs' = Append(procs, Popen(shell, name, stubborn))
              /\ active_proxies' = Put(active_proxies, Key(shell, name), Len(procs) + 1)
              /\ last' = Call("proxy_shell", name, TRUE, EmptyDict)
         ELSE /\ stubborn = FALSE
              /\ UNCHANGED <<procs, active_proxies>>
              /\ last' = Call("proxy_shell", name, FALSE, EmptyDict)
    /\ UNCHANGED <<socket_paths, files, atexit_done>>

\* proxy_shell called by a program that uses the Proxy directly.
proxy_shell(name) ==
    /\ ~atexit_done
    /\ proxy_shell_call(name)
    /\ UNCHANGED <<supVars, brokerVars, concVars, cliVars>>

\* Proxy._proxy_regular_console(instance, port)
proxy_regular_console(name) ==
    /\ \E popenOk, stubborn \in BOOLEAN :
         IF popenOk
         THEN /\ Len(procs) < MaxProcs
              /\ procs' = Append(procs, Popen(console, name, stubborn))
              /\ active_proxies' = Put(active_proxies, Key(console, name), Len(procs) + 1)
              /\ last' = Call("proxy_console", name, TRUE, EmptyDict)
         ELSE /\ stubborn = FALSE
              /\ UNCHANGED <<procs, active_proxies>>
              /\ last' = Call("proxy_console", name, FALSE, EmptyDict)
    /\ UNCHANGED <<socket_paths, files, atexit_done>>

\* tempfile.mktemp(prefix="console-share-", suffix=".path") in a filesystem fs:
\* a name of that shape that does not exist; candidates are tried in order.
mktemp(fs) ==
    LET candidate(n) == <<"console-share-", n, ".path">>
        n == CHOOSE i \in 1..(Cardinality(DOMAIN fs) + 1) :
                 /\ candidate(i) \notin DOMAIN fs
                 /\ \A j \in 1..(i - 1) : candidate(j) \in DOMAIN fs
    IN  candidate(n)

\* Path(self.config.remote_viewer_path) / "remote-viewer"
viewer_path == <<"remote-viewer">>

\* Mutant of fake_remote_viewer: the stand-in writes the file it was given.
fake_remote_viewer_writing_log(socket_path) ==
    [writes_to |-> socket_path]

\* The stand-in script written by _create_fake_remote_viewer(socket_path): when
\* run it writes the unix-socket= part of its arguments to f"{socket_path}.path".
fake_remote_viewer(socket_path) ==
    [writes_to |-> Append(socket_path, ".path")]

\* The socket the console client of an instance negotiates.
SocketOf(name) ==
    <<"spice-", name, ".sock">>

\* Mutant of get_socket_path_from_log: at the timeout it returns None.
get_socket_path_from_log_returning_none(fs, log_path) ==
    IF /\ log_path \in DOMAIN fs
       /\ fs[log_path][1] = "unix-socket="
    THEN [raised |-> FALSE, path |-> fs[log_path][2]]
    ELSE [raised |-> FALSE, path |-> <<>>]

\* Proxy._get_socket_path_from_log(log_path) in a filesystem fs: the path after
\* "unix-socket=" once the file is there with that content; when the timeout
\* elapses first, raise ProxyError("Timeout waiting for socket path").
get_socket_path_from_log(fs, log_path) ==
    IF /\ log_path \in DOMAIN fs
       /\ fs[log_path][1] = "unix-socket="
    THEN [raised |-> FALSE, path |-> fs[log_path][2]]
    ELSE [raised |-> TRUE, path |-> <<>>]

\* Proxy._proxy_vga_console(instance, port).  popenOk: the console client could
\* be started; helperInvoked: the client ran remote-viewer (the stand-in found
\* first on PATH) before the timeout, having created its socket; socatOk: socat
\* could be started.  Every exception is raised again as ProxyError("Failed to
\* start VGA console proxy: <message>").
proxy_vga_console(name) ==
    /\ \E popenOk, helperInvoked, socatOk, stubborn \in BOOLEAN :
         LET socket_log == mktemp(files)
             files1 == Put(files, viewer_path, fake_remote_viewer(socket_log))
             procs1 == IF popenOk
                       THEN Append(procs, Popen(incus, name, FALSE))
                       ELSE procs
             files2 == IF popenOk /\ helperInvoked
                       THEN Put(Put(files1, SocketOf(name), "socket"),
                                files1[viewer_path].writes_to,
                                <<"unix-socket=", SocketOf(name)>>)
                       ELSE files1
             polled == get_socket_path_from_log(files2, socket_log)
             socket_path == polled.path
             \* if not socket_path or not os.path.exists(socket_path): raise
             captured == /\ popenOk
                         /\ ~polled.raised
                         /\ socket_path # <<>>
                         /\ socket_path \in DOMAIN files2
             message == IF ~popenOk THEN "FileNotFoundError"
                        ELSE IF polled.raised THEN "Timeout waiting for socket path"
                        ELSE IF ~captured THEN "Failed to get console socket path"
                        ELSE "FileNotFoundError"
         IN  /\ Len(procs1) <= MaxProcs
             /\ (~popenOk => ~helperInvoked)
             /\ (~captured => ~socatOk)
             /\ (~socatOk => ~stubborn)
             /\ socket_paths' = IF captured
                                THEN Put(socket_paths, name, socket_path)
                                ELSE socket_paths
             /\ IF captured /\ socatOk
                THEN /\ Len(procs1) < MaxProcs
                     /\ procs' = Append(procs1, Popen(vga, name, stubborn))
                     /\ active_proxies' =
                            Put(active_proxies, Key(vga, name), Len(procs1) + 1)
                     /\ last' = Call("proxy_console", name, TRUE, EmptyDict)
                ELSE /\ procs' = procs1
                     /\ UNCHANGED active_proxies
                     /\ last' = Call("proxy_console", name, FALSE,
                                     [error |-> message])
             \* finally: os.unlink(socket_log), its failure ignored
             /\ files' = Del(files2, {socket_log})
    /\ UNCHANGED atexit_done

\* Proxy.proxy_console(instance, vga) for an IncusInstance with this name and
\* this type field.
proxy_console_call(name, type, use_vga) ==
    IF use_vga /\ type = "virtual-machine"
    THEN proxy_vga_console(name)
    ELSE proxy_regular_console(name)

\* proxy_console called by a program that uses the Proxy directly, with the
\* type as the API names it.
proxy_console(name, use_vga) ==
    /\ ~atexit_done
    /\ UNCHANGED <<supVars, brokerVars, concVars, cliVars>>
    /\ proxy_console_call(name, InstanceType(name), use_vga)

\* Proxy.stop_proxy(instance_name)
stop_proxy_call(instance_name) ==
    /\ LET keys_to_remove ==
               {key \in DOMAIN active_proxies : Contains(instance_name, key)}
           pids == {active_proxies[key] : key \in keys_to_remove}
       IN  /\ procs' = [pid \in DOMAIN procs |->
                           IF pid \in pids
                           THEN terminate_wait_kill(procs[pid])
                           ELSE procs[pid]]
           \* try: os.unlink(path); del self.socket_paths[name]   except: pass
           /\ IF /\ instance_name \in DOMAIN socket_paths
                 /\ socket_paths[instance_name] \in DOMAIN files
              THEN /\ files' = Del(files, {socket_paths[instance_name]})
                   /\ socket_paths' = Del(socket_paths, {instance_name})
              ELSE UNCHANGED <<files, socket_paths>>
           /\ active_proxies' = Del(active_proxies, keys_to_remove)
    /\ last' = Call("stop_proxy", instance_name, TRUE, EmptyDict)
    /\ UNCHANGED atexit_done

\* stop_proxy called by a program that uses the Proxy directly.
stop_proxy(instance_name) ==
    /\ ~atexit_done
    /\ stop_proxy_call(instance_name)
    /\ UNCHANGED <<supVars, brokerVars, concVars, cliVars>>

\* Mutant of list_active_result: process.poll() is not consulted.
list_active_result_without_poll ==
    [key \in DOMAIN active_proxies |->
        [type |-> Split1(key)[1],
         instance |-> Split1(key)[2],
         pid |-> active_proxies[key]]]

\* The dict Proxy.list_active() returns in the current state.
list_active_result ==
    [key \in {k \in DOMAIN active_proxies : Running(active_proxies[k])} |->
        [type |-> Split1(key)[1],
         instance |-> Split1(key)[2],
         pid |-> active_proxies[key]]]

\* Proxy.list_active()
list_active ==
    /\ ~atexit_done
    /\ last' = Call("list_active", <<>>, TRUE, list_active_result)
    /\ UNCHANGED <<active_proxies, socket_paths, procs, files, atexit_done>>
    /\ UNCHANGED <<supVars, brokerVars, concVars, cliVars>>

\* Proxy.cleanup()
cleanup_call ==
    /\ LET pids == {active_proxies[key] : key \in DOMAIN active_proxies}
       IN  procs' = [pid \in DOMAIN procs |->
                        IF pid \in pids
                        THEN terminate_wait_kill(procs[pid])
                        ELSE procs[pid]]
    /\ files' = Del(files, {socket_paths[n] : n \in DOMAIN socket_paths})
    /\ atexit_done' = TRUE
    /\ last' = Call("cleanup", <<>>, TRUE, EmptyDict)
    /\ UNCHANGED <<active_proxies, socket_paths>>

\* cleanup is registered with atexit: it runs once, when the program exits.
cleanup ==
    /\ ~atexit_done
    /\ cleanup_call
    /\ UNCHANGED <<supVars, brokerVars, concVars, cliVars>>

\* A child of the Proxy exits by itself.
child_exit(pid) ==
    /\ pid \in DOMAIN procs
    /\ procs[pid].alive
    /\ procs' = [procs EXCEPT ![pid].alive = FALSE]
    /\ last' = Call("child_exit", <<>>, TRUE, EmptyDict)
    /\ UNCHANGED <<active_proxies, socket_paths, files, atexit_done>>
    /\ UNCHANGED <<supVars, brokerVars, concVars, cliVars>>

(***************************************************************************)
(* The console-share command (src/src/console_share/cli.py, incus.py)      *)
(*                                                                         *)
(* Every run of the command is a process of its own: cli() builds Config   *)
(* and Proxy, the subcommand runs, and the interpreter runs the atexit     *)
(* handlers when it leaves.                                                *)
(***************************************************************************)
RUNNING == <<"R", "U", "N", "N", "I", "N", "G">>
STOPPED == <<"S", "T", "O", "P", "P", "E", "D">>
CONTAINER == <<"C", "O", "N", "T", "A", "I", "N", "E", "R">>
VIRTUAL_MACHINE ==
    <<"V", "I", "R", "T", "U", "A", "L", "-", "M", "A", "C", "H", "I", "N", "E">>

\* c.isupper(), on the characters the listings are made of.
isupper(c) ==
    c \in {"A", "C", "D", "E", "G", "H", "I", "L", "M",
           "N", "O", "P", "R", "S", "T", "U", "V"}

\* s.lower()
lower(s) ==
    LET small == ("A" :> "a") @@ ("C" :> "c") @@ ("D" :> "d") @@ ("E" :> "e")
              @@ ("G" :> "g") @@ ("H" :> "h") @@ ("I" :> "i") @@ ("L" :> "l")
              @@ ("M" :> "m") @@ ("N" :> "n") @@ ("O" :> "o") @@ ("P" :> "p")
              @@ ("R" :> "r") @@ ("S" :> "s") @@ ("T" :> "t") @@ ("U" :> "u")
              @@ ("V" :> "v")
    IN  [i \in 1..Len(s) |-> IF s[i] \in DOMAIN small THEN small[s[i]] ELSE s[i]]

\* s.find(sub): the lowest index (from 0) where sub occurs in s, or -1.
find(s, sub) ==
    LET at == {i \in 0..(Len(s) - Len(sub)) : SubSeq(s, i + 1, i + Len(sub)) = sub}
    IN  IF at = {} THEN -1 ELSE CHOOSE i \in at : \A j \in at : i <= j

\* What `incus list <name>` prints for an instance of the remote: the fields
\* parse_csv_output looks for, the name, the status, the type and the number
\* of snapshots.  An instance the remote does not have prints nothing.
incus_list(name, status) ==
    IF name \in InstanceNames
    THEN <<name \o status
                \o (IF InstanceType(name) = "virtual-machine"
                    THEN VIRTUAL_MACHINE ELSE CONTAINER)
                \o <<"0">>>>
    ELSE <<>>

\* The body of the loop of parse_csv_output for one line: [name, status, ip,
\* instance_type, snapshots], of which IncusInstance takes name, status, type.
parse_csv_line(line) ==
    LET status_start == CHOOSE i \in 1..Len(line) :
                            /\ isupper(line[i])
                            /\ \A j \in 1..(i - 1) : ~isupper(line[j])
        name == SubSeq(line, 1, status_start - 1)
        rest == SubSeq(line, status_start, Len(line))
        type_start == IF find(rest, CONTAINER) # -1
                      THEN find(rest, CONTAINER)
                      ELSE find(rest, VIRTUAL_MACHINE)
        type_and_snapshots == SubSeq(rest, type_start + 1, Len(rest))
    IN  [name |-> name,
         status |-> SubSeq(rest, 1, type_start),
         type |-> IF Contains(CONTAINER, type_and_snapshots)
                  THEN "CONTAINER" ELSE "VIRTUAL-MACHINE"]

\* parse_csv_output(output), for lines that carry a type.
parse_csv_output(output) ==
    [i \in 1..Len(output) |-> parse_csv_line(output[i])]

\* get_instance(name): the first parsed line, or None (here <<>>).
get_instance(output) ==
    LET instances == parse_csv_output(output)
    IN  IF instances = <<>> THEN <<>> ELSE <<instances[1]>>

\* is_running(instance)
is_running(instance) ==
    lower(instance.status) = lower(RUNNING)

\* list_instances() while the remote answers: every instance of the remote.
list_instances ==
    parse_csv_output(incus_list(web, RUNNING) \o incus_list(web1, RUNNING))

\* Config.generate_config(instances): the table it builds and hands to
\* save_config.  The method has no return statement.
generated_config(instances) ==
    [proxy |-> config.proxy,
     instances |->
        [name \in {instances[i].name : i \in 1..Len(instances)} |->
            LET i == CHOOSE k \in 1..Len(instances) : instances[k].name = name
            IN  [type |-> IF instances[i].type = "VIRTUAL-MACHINE"
                          THEN "vga" ELSE "shell",
                 port |-> config.proxy.start_port + (i - 1),
                 enabled |-> TRUE]]]

\* Python's None.
None == [None |-> TRUE]

\* Config.save_config(table) from memory `held` and file `file`: open(file,
\* "wb") empties the file, tomli_w.dump writes the table, self.config = table.
\* For a table that is no mapping, dump raises before it writes anything.
save_config(held, file, table) ==
    IF table = None
    THEN [config |-> held, file |-> [exists |-> TRUE, doc |-> EmptyDocument],
          raised |-> TRUE]
    ELSE [config |-> table, file |-> [exists |-> TRUE, doc |-> table],
          raised |-> FALSE]

\* The command process: what runs, for which instance, the registry key it
\* waits on, the exit status (-1 while it runs) and the error it died of.
Command(pos, command, instance, key, status, error) ==
    [pc |-> pos, command |-> command, instance |-> instance, key |-> key,
     status |-> status, error |-> error]

\* cli() has built Config() without a file and Proxy(config).
CliInit ==
    /\ config = DEFAULT_CONFIG
    /\ config_file = [exists |-> FALSE, doc |-> EmptyDocument]
    /\ cli = Command("started", "", <<>>, <<>>, -1, "")

\* A new run of the command: cli() builds Config() from the file and a new
\* Proxy(config), which registers its cleanup.
cli_main ==
    /\ cli.pc = "exited"
    /\ config' = load_config(config_file)
    /\ active_proxies' = EmptyDict
    /\ socket_paths' = EmptyDict
    /\ atexit_done' = FALSE
    /\ last' = Call("init", <<>>, TRUE, EmptyDict)
    /\ cli' = Command("started", "", <<>>, <<>>, -1, "")
    /\ UNCHANGED <<procs, files, config_file>>
    /\ UNCHANGED <<supVars, brokerVars, concVars>>

\* A new run with --generate.  listed: `incus list` could be run.
\*   new_config = config.generate_config(instances)
\*   config.save_config(new_config)
\* Every exception is reported as "Error generating config" with status 1.
cli_generate ==
    /\ cli.pc = "exited"
    /\ \E listed \in BOOLEAN :
         IF listed
         THEN LET loaded == load_config(config_file)
                  generated == [proxy |-> loaded.proxy,
                                instances |-> generated_config(list_instances).instances]
                  first == save_config(loaded, config_file, generated)
                  new_config == None
                  second == save_config(first.config, first.file, new_config)
              IN  /\ config' = second.config
                  /\ config_file' = second.file
                  /\ cli' = IF second.raised
                            THEN Command("exited", "generate", <<>>, <<>>, 1,
                                         "AttributeError")
                            ELSE Command("exited", "generate", <<>>, <<>>, 0, "")
         ELSE /\ config' = load_config(config_file)
              /\ cli' = Command("exited", "generate", <<>>, <<>>, 1, "IncusError")
              /\ UNCHANGED config_file
    /\ UNCHANGED regVars
    /\ UNCHANGED <<supVars, brokerVars, concVars>>

\* Binding the arguments of a call proxy.stop_proxy(*args) to the signature
\* stop_proxy(self, instance_name): TypeError unless there is exactly one.
stop_proxy_binds(args) ==
    Len(args) = 1

\* The shell and console commands up to the wait: get_instance, is_running,
\* the start, and the lookup of proxy.active_proxies[proxy_key].  started: the
\* action of the Proxy that starts the bridge of the parsed instance.
cli_start(command, instance, status, proxy_key, use_vga) ==
    LET found == get_instance(incus_list(instance, status))
    IN  IF found = <<>>
        THEN /\ cli' = Command("exiting", command, instance, <<>>, 1, "not found")
             /\ UNCHANGED regVars
        ELSE IF ~is_running(found[1])
        THEN /\ cli' = Command("exiting", command, instance, <<>>, 1, "not running")
             /\ UNCHANGED regVars
        ELSE /\ IF command = "shell"
                THEN proxy_shell_call(found[1].name)
                ELSE proxy_console_call(found[1].name, found[1].type, use_vga)
             /\ cli' = IF ~last'.ok
                       THEN Command("exiting", command, instance, <<>>, 1, "ProxyError")
                       ELSE IF proxy_key \notin DOMAIN active_proxies'
                       THEN Command("exiting", command, instance, proxy_key, 1, "KeyError")
                       ELSE Command("waiting", command, instance, proxy_key, -1, "")

\* console-share shell <instance>
cli_shell(instance) ==
    /\ cli.pc = "started"
    /\ \E status \in {RUNNING, STOPPED} :
         cli_start("shell", instance, status, Key(shell, instance), FALSE)
    /\ UNCHANGED <<config, config_file>>
    /\ UNCHANGED <<supVars, brokerVars, concVars>>

\* console-share console [--vga] <instance>:
\*   proxy_key = f"vga_{instance}" if vga else f"console_{instance}"
cli_console(instance, use_vga) ==
    /\ cli.pc = "started"
    /\ \E status \in {RUNNING, STOPPED} :
         cli_start("console", instance, status,
                   IF use_vga THEN Key(vga, instance) ELSE Key(console, instance),
                   use_vga)
    /\ UNCHANGED <<config, config_file>>
    /\ UNCHANGED <<supVars, brokerVars, concVars>>

\* The bridge the command waits on has exited: wait() returns, and so does
\* the command.
cli_wait_returns ==
    /\ cli.pc = "waiting"
    /\ ~Running(active_proxies[cli.key])
    /\ cli' = [cli EXCEPT !.pc = "exiting", !.status = 0]
    /\ UNCHANGED <<regVars, config, config_file>>
    /\ UNCHANGED <<supVars, brokerVars, concVars>>

\* KeyboardInterrupt during the wait:
\*   proxy.stop_proxy(instance, "shell")
\*   proxy.stop_proxy(instance, "vga" if vga else "console")
\* A TypeError is not among the exceptions the command catches.
cli_interrupt ==
    /\ cli.pc = "waiting"
    /\ IF stop_proxy_binds(<<cli.instance, Split1(cli.key)[1]>>)
       THEN /\ stop_proxy_call(cli.instance)
            /\ cli' = [cli EXCEPT !.pc = "exiting", !.status = 0]
       ELSE /\ cli' = [cli EXCEPT !.pc = "exiting", !.status = 1,
                                  !.error = "TypeError"]
            /\ UNCHANGED regVars
    /\ UNCHANGED <<config, config_file>>
    /\ UNCHANGED <<supVars, brokerVars, concVars>>

\* console-share stop [--type shell|console|vga|all] <instance>:
\*   proxy.stop_proxy(instance, proxy_type)
\* Every exception is reported as "Error stopping proxy" with status 1.
cli_stop(instance, proxy_type) ==
    /\ cli.pc = "started"
    /\ IF stop_proxy_binds(<<instance, proxy_type>>)
       THEN /\ stop_proxy_call(instance)
            /\ cli' = Command("exiting", "stop", instance, <<>>, 0, "")
       ELSE /\ cli' = Command("exiting", "stop", instance, <<>>, 1, "TypeError")
            /\ UNCHANGED regVars
    /\ UNCHANGED <<config, config_file>>
    /\ UNCHANGED <<supVars, brokerVars, concVars>>

\* console-share list
cli_list ==
    /\ cli.pc = "started"
    /\ last' = Call("list_active", <<>>, TRUE, list_active_result)
    /\ cli' = Command("exiting", "list", <<>>, <<>>, 0, "")
    /\ UNCHANGED <<active_proxies, socket_paths, procs, files, atexit_done>>
    /\ UNCHANGED <<config, config_file>>
    /\ UNCHANGED <<supVars, brokerVars, concVars>>

\* The interpreter leaves: the atexit handler Proxy.cleanup runs.
cli_exit ==
    /\ cli.pc = "exiting"
    /\ cleanup_call
    /\ cli' = [cli EXCEPT !.pc = "exited"]
    /\ UNCHANGED <<config, config_file>>
    /\ UNCHANGED <<supVars, brokerVars, concVars>>

(***************************************************************************)
(* Calls on the Proxy from concurrent threads                              *)
(*                                                                         *)
(* The Proxy takes no lock.  A thread can be suspended wherever its method *)
(* waits (process.wait, time.sleep) and between two steps of an iteration. *)
(* Each thread works on its own instance.  An iterator over a dict raises  *)
(* RuntimeError from its next step once the size of the dict has changed.  *)
(***************************************************************************)
Threads == {1, 2}

\* Both are virtual machines.
ThreadInstance(t) ==
    IF t = 1 THEN web1 ELSE web2

\* The locals of the method a thread is in: the keys its iterator has not
\* yielded yet and the size the dict had when the iterator was made,
\* keys_to_remove, the dict `active` being built, socket_log, and whether the
\* console client it started has run remote-viewer.
Idle ==
    [pc |-> "idle", todo |-> {}, size |-> 0, keys_to_remove |-> {},
     active |-> EmptyDict, socket_log |-> <<>>, invoked |-> FALSE]

\* No call on the Proxy is in progress in any thread.
ConcInit ==
    threads = [t \in Threads |-> Idle]

\* The method of thread t returns, or raises the exception in ret.
Return(t, op, ok, ret) ==
    /\ threads' = [threads EXCEPT ![t] = Idle]
    /\ last' = Call(op, ThreadInstance(t), ok, ret)

\* The locals of a thread inside a loop over self.active_proxies.items().
InLoop(loop, todo, size, keys_to_remove, active) ==
    [Idle EXCEPT !.pc = loop, !.todo = todo, !.size = size,
                 !.keys_to_remove = keys_to_remove, !.active = active]

\* A thread calls proxy_shell for its instance: Popen and one dict store.
thread_proxy_shell(t) ==
    /\ threads[t].pc = "idle"
    /\ proxy_shell(ThreadInstance(t))

\* One step of `for key, process in self.active_proxies.items()` in
\* stop_proxy, for an iterator made when the dict had `size` entries and that
\* has `todo` left: RuntimeError if the size has changed, the end of the loop,
\* or the next key; if the instance name is in the key, terminate / wait(5) /
\* kill and keys_to_remove.append(key).  The thread can be suspended in
\* wait() and at the jump back to the head of the loop.
stop_proxy_iteration(t, todo, size, keys_to_remove) ==
    IF Cardinality(DOMAIN active_proxies) # size
    THEN /\ Return(t, "stop_proxy", FALSE, [error |-> "RuntimeError"])
         /\ UNCHANGED procs
    ELSE IF todo \cap DOMAIN active_proxies = {}
    THEN /\ threads' = [threads EXCEPT ![t] =
                           InLoop("stop_socket", {}, size, keys_to_remove, EmptyDict)]
         /\ UNCHANGED <<procs, last>>
    ELSE \E key \in todo \cap DOMAIN active_proxies :
           /\ procs' = IF Contains(ThreadInstance(t), key)
                       THEN [procs EXCEPT ![active_proxies[key]] =
                                terminate_wait_kill(@)]
                       ELSE procs
           /\ threads' = [threads EXCEPT ![t] =
                 InLoop("stop_loop", todo \ {key}, size,
                        IF Contains(ThreadInstance(t), key)
                        THEN keys_to_remove \cup {key} ELSE keys_to_remove,
                        EmptyDict)]
           /\ UNCHANGED last

\* stop_proxy(instance_name) is called: keys_to_remove = [], the iterator is
\* made and takes its first step.
stop_proxy_begin(t) ==
    /\ threads[t].pc = "idle"
    /\ ~atexit_done
    /\ stop_proxy_iteration(t, DOMAIN active_proxies,
                            Cardinality(DOMAIN active_proxies), {})
    /\ UNCHANGED <<active_proxies, socket_paths, files, atexit_done>>
    /\ UNCHANGED <<supVars, brokerVars, cliVars>>

\* The loop of stop_proxy goes on after the thread was suspended.
stop_proxy_next(t) ==
    /\ threads[t].pc = "stop_loop"
    /\ stop_proxy_iteration(t, threads[t].todo, threads[t].size,
                            threads[t].keys_to_remove)
    /\ UNCHANGED <<active_proxies, socket_paths, files, atexit_done>>
    /\ UNCHANGED <<supVars, brokerVars, cliVars>>

\* stop_proxy: if instance_name in self.socket_paths: unlink and del.
stop_proxy_socket(t) ==
    /\ threads[t].pc = "stop_socket"
    /\ IF /\ ThreadInstance(t) \in DOMAIN socket_paths
          /\ socket_paths[ThreadInstance(t)] \in DOMAIN files
       THEN /\ files' = Del(files, {socket_paths[ThreadInstance(t)]})
            /\ socket_paths' = Del(socket_paths, {ThreadInstance(t)})
       ELSE UNCHANGED <<files, socket_paths>>
    /\ threads' = [threads EXCEPT ![t].pc = "stop_del"]
    /\ UNCHANGED <<active_proxies, procs, atexit_done, last>>
    /\ UNCHANGED <<supVars, brokerVars, cliVars>>

\* stop_proxy: for key in keys_to_remove: del self.active_proxies[key], which
\* raises KeyError for a key that is not there; then the method returns.
stop_proxy_del(t) ==
    /\ threads[t].pc = "stop_del"
    /\ IF threads[t].keys_to_remove = {}
       THEN /\ Return(t, "stop_proxy", TRUE, EmptyDict)
            /\ UNCHANGED active_proxies
       ELSE \E key \in threads[t].keys_to_remove :
              IF key \in DOMAIN active_proxies
              THEN /\ active_proxies' = Del(active_proxies, {key})
                   /\ threads' = [threads EXCEPT ![t].keys_to_remove = @ \ {key}]
                   /\ UNCHANGED last
              ELSE /\ Return(t, "stop_proxy", FALSE, [error |-> "KeyError"])
                   /\ UNCHANGED active_proxies
    /\ UNCHANGED <<socket_paths, procs, files, atexit_done>>
    /\ UNCHANGED <<supVars, brokerVars, cliVars>>

\* One step of the loop of list_active: RuntimeError if the size of the dict
\* has changed, `return active` at the end, or the next key, entered in
\* `active` if process.poll() is None.  The thread can be suspended at the
\* jump back to the head of the loop.
list_active_iteration(t, todo, size, active) ==
    IF Cardinality(DOMAIN active_proxies) # size
    THEN Return(t, "list_active", FALSE, [error |-> "RuntimeError"])
    ELSE IF todo \cap DOMAIN active_proxies = {}
    THEN Return(t, "list_active", TRUE, active)
    ELSE \E key \in todo \cap DOMAIN active_proxies :
           /\ threads' = [threads EXCEPT ![t] =
                 InLoop("list_loop", todo \ {key}, size, {},
                        IF Running(active_proxies[key])
                        THEN Put(active, key, [type |-> Split1(key)[1],
                                               instance |-> Split1(key)[2],
                                               pid |-> active_proxies[key]])
                        ELSE active)]
           /\ UNCHANGED last

\* list_active() is called: active = {}, the iterator is made and takes its
\* first step.
list_active_begin(t) ==
    /\ threads[t].pc = "idle"
    /\ ~atexit_done
    /\ list_active_iteration(t, DOMAIN active_proxies,
                             Cardinality(DOMAIN active_proxies), EmptyDict)
    /\ UNCHANGED <<active_proxies, socket_paths, procs, files, atexit_done>>
    /\ UNCHANGED <<supVars, brokerVars, cliVars>>

\* The loop of list_active goes on after the thread was suspended.
list_active_next(t) ==
    /\ threads[t].pc = "list_loop"
    /\ list_active_iteration(t, threads[t].todo, threads[t].size,
                             threads[t].active)
    /\ UNCHANGED <<active_proxies, socket_paths, procs, files, atexit_done>>
    /\ UNCHANGED <<supVars, brokerVars, cliVars>>

\* proxy_console(instance, vga=True) up to the polling loop: mktemp (a name no
\* file and no other negotiation has), the stand-in written over
\* <remote_viewer_path>/remote-viewer, the console client started with that
\* directory first on its PATH.
proxy_vga_console_begin(t) ==
    /\ threads[t].pc = "idle"
    /\ ~atexit_done
    /\ \E popenOk \in BOOLEAN :
         LET taken == [path \in (DOMAIN files)
                           \cup {threads[u].socket_log : u \in Threads} |-> 0]
             socket_log == mktemp(taken)
         IN  /\ files' = Put(files, viewer_path, fake_remote_viewer(socket_log))
             /\ IF popenOk
                THEN /\ Len(procs) < MaxProcs
                     /\ procs' = Append(procs, Popen(incus, ThreadInstance(t), FALSE))
                     /\ threads' = [threads EXCEPT ![t] =
                                       [Idle EXCEPT !.pc = "vga_poll",
                                                    !.socket_log = socket_log]]
                     /\ UNCHANGED last
                ELSE /\ Return(t, "proxy_console", FALSE,
                               [error |-> "FileNotFoundError"])
                     /\ UNCHANGED procs
    /\ UNCHANGED <<active_proxies, socket_paths, atexit_done>>
    /\ UNCHANGED <<supVars, brokerVars, cliVars>>

\* The console client that thread t started runs remote-viewer: the file that
\* is at <remote_viewer_path>/remote-viewer now.  It has made its socket, and
\* the script writes the unix-socket= argument where its text says.
remote_viewer_invoked(t) ==
    /\ threads[t].pc = "vga_poll"
    /\ ~threads[t].invoked
    /\ files' = Put(Put(files, SocketOf(ThreadInstance(t)), "socket"),
                    files[viewer_path].writes_to,
                    <<"unix-socket=", SocketOf(ThreadInstance(t))>>)
    /\ threads' = [threads EXCEPT ![t].invoked = TRUE]
    /\ UNCHANGED <<active_proxies, socket_paths, procs, atexit_done, last>>
    /\ UNCHANGED <<supVars, brokerVars, cliVars>>

\* proxy_console(instance, vga=True) from the polling loop on: the path read
\* or the timeout, socket_paths, socat, active_proxies; finally the unlink.
proxy_vga_console_end(t) ==
    /\ threads[t].pc = "vga_poll"
    /\ \E socatOk, stubborn \in BOOLEAN :
         LET polled == get_socket_path_from_log(files, threads[t].socket_log)
             captured == /\ ~polled.raised
                         /\ polled.path # <<>>
                         /\ polled.path \in DOMAIN files
             message == IF polled.raised THEN "Timeout waiting for socket path"
                        ELSE IF ~captured THEN "Failed to get console socket path"
                        ELSE "FileNotFoundError"
         IN  /\ (~captured => ~socatOk)
             /\ (~socatOk => ~stubborn)
             /\ socket_paths' = IF captured
                                THEN Put(socket_paths, ThreadInstance(t), polled.path)
                                ELSE socket_paths
             /\ IF captured /\ socatOk
                THEN /\ Len(procs) < MaxProcs
                     /\ procs' = Append(procs, Popen(vga, ThreadInstance(t), stubborn))
                     /\ active_proxies' = Put(active_proxies,
                                              Key(vga, ThreadInstance(t)),
                                              Len(procs) + 1)
                     /\ Return(t, "proxy_console", TRUE, EmptyDict)
                ELSE /\ UNCHANGED <<procs, active_proxies>>
                     /\ Return(t, "proxy_console", FALSE, [error |-> message])
             /\ files' = Del(files, {threads[t].socket_log})
    /\ UNCHANGED atexit_done
    /\ UNCHANGED <<supVars, brokerVars, cliVars>>

(***************************************************************************)
(* IncusConsoleProxy: requests to the management API                       *)
(*                                                                         *)
(* An answer is what the remote does with one request: whether the         *)
(* connection is made, the HTTP status, whether the body is JSON served as *)
(* JSON (response.json() raises ContentTypeError otherwise), the body text *)
(* and the parsed body.  An exception is the text of its message with the  *)
(* status and the body the message carries (0 and "" when it carries none).*)
(***************************************************************************)
NoError ==
    [text |-> "", status |-> 0, body |-> ""]

Error(text, status, body) ==
    [text |-> text, status |-> status, body |-> body]

\* The parsed body of the answer to GET /instances/<name>: the "metadata"
\* member is missing, null or an object, and that object's "type" member.
InstanceBodies ==
    [metadata : {"object"},
     type : {"absent", "", "container", "virtual-machine"},
     operation : {<<>>}, fd0 : {"absent"}, control : {"absent"}]
    \cup
    [metadata : {"absent", "null"}, type : {"absent"},
     operation : {<<>>}, fd0 : {"absent"}, control : {"absent"}]

\* The parsed body of the answer to POST /instances/<name>/console: the
\* operation path (<<>>: no "operation" member) and the members "0" and
\* "control" of metadata.metadata.fds (missing, an empty string, or a secret).
ConsoleBodies ==
    [metadata : {"object"}, type : {"absent"},
     operation : {<<>>, <<"1.0", "operations", "op7">>},
     fd0 : {"absent", "", "s-data"},
     control : {"absent", "", "s-control"}]

NoBody ==
    [metadata |-> "absent", type |-> "absent", operation |-> <<>>,
     fd0 |-> "absent", control |-> "absent"]

NoAnswer ==
    [connect |-> FALSE, status |-> 0, json |-> FALSE, text |-> "", data |-> NoBody]

Statuses == {200, 202, 500}

Answers(bodies) ==
    {NoAnswer}
    \cup [connect : {TRUE}, status : Statuses, json : {FALSE},
          text : {"<html>"}, data : {NoBody}]
    \cup [connect : {TRUE}, status : Statuses, json : {TRUE},
          text : {"{json}"}, data : bodies]

GetAnswers == Answers(InstanceBodies)

PostAnswers == Answers(ConsoleBodies)

\* IncusConsoleProxy.api_request(method, path, data) when the remote answers
\* with `answer`: response.json() is awaited before the status is looked at.
api_request(answer) ==
    IF ~answer.connect
    THEN [ok |-> FALSE, data |-> NoBody,
          error |-> Error("Failed to connect", 0, "")]
    ELSE IF ~answer.json
    THEN [ok |-> FALSE, data |-> NoBody,
          error |-> Error("HTTP client error", answer.status, "")]
    ELSE IF answer.status \in {200, 202}
    THEN [ok |-> TRUE, data |-> answer.data, error |-> NoError]
    ELSE [ok |-> FALSE, data |-> NoBody,
          error |-> Error("HTTP", answer.status, answer.text)]

\* IncusConsoleProxy.get_instance_info(): response.get("metadata", {}), which
\* is None when the member is null; the error of api_request is raised again.
get_instance_info(answer) ==
    LET response == api_request(answer)
    IN  IF ~response.ok
        THEN [ok |-> FALSE, info |-> "raised"]
        ELSE IF response.data.metadata = "null"
        THEN [ok |-> TRUE, info |-> "None"]
        ELSE IF response.data.metadata = "absent"
        THEN [ok |-> TRUE, info |-> "absent"]
        ELSE [ok |-> TRUE, info |-> response.data.type]

\* Mutant of determine_instance_type: a failed query is taken for a VM.
determine_instance_type_failing_to_vm(answer) ==
    LET r == get_instance_info(answer)
    IN  IF ~r.ok \/ r.info = "None"
        THEN "False"
        ELSE IF r.info = "virtual-machine" THEN "False" ELSE "True"

\* IncusConsoleProxy.determine_instance_type(): the value it leaves in
\* self.is_container.  info.get("type", "") on None raises AttributeError,
\* which `except Exception` catches like the error of the query.
determine_instance_type(answer) ==
    LET r == get_instance_info(answer)
    IN  IF ~r.ok \/ r.info = "None"
        THEN "True"
        ELSE LET instance_type == IF r.info = "absent" THEN "" ELSE r.info
             IN  IF instance_type = "virtual-machine" THEN "False" ELSE "True"

Raise(error) ==
    [ok |-> FALSE, value |-> <<>>, error |-> error]

\* Mutant of create_console_result: only the data secret is required.
create_console_result_without_control(answer) ==
    LET response == api_request(answer)
        data_secret == response.data.fd0
        control_secret == response.data.control
    IN  IF ~response.ok
        THEN Raise(response.error)
        ELSE IF data_secret \in {"absent", ""}
        THEN Raise(Error("Failed to get console secrets", 0, ""))
        ELSE IF response.data.operation = <<>>
        THEN Raise(Error("AttributeError", 0, ""))
        ELSE [ok |-> TRUE,
              value |-> <<response.data.operation[Len(response.data.operation)],
                          data_secret, control_secret>>,
              error |-> NoError]

\* IncusConsoleProxy.create_console() from its POST on: the triple it returns
\* or the exception it raises.  fds.get(...) is None for a missing member and
\* `not secret` holds for None and for "".
create_console_result(answer) ==
    LET response == api_request(answer)
        data_secret == response.data.fd0
        control_secret == response.data.control
    IN  IF ~response.ok
        THEN Raise(response.error)
        ELSE IF data_secret \in {"absent", ""} \/ control_secret \in {"absent", ""}
        THEN Raise(Error("Failed to get console secrets", 0, ""))
        ELSE IF response.data.operation = <<>>
        THEN Raise(Error("AttributeError", 0, ""))
        ELSE [ok |-> TRUE,
              value |-> <<response.data.operation[Len(response.data.operation)],
                          data_secret, control_secret>>,
              error |-> NoError]

\* Remote specifications, as the remote setting of the configuration gives
\* them.
unix_socket == <<"u", "n", "i", "x", ":", "/", "v", "a", "r", "/", "l", "i", "b", "/", "i", "n", "c", "u", "s", "/", "u", "n", "i", "x", ".", "s", "o", "c", "k", "e", "t">>

Remotes ==
    { <<>>,
      unix_socket,
      <<"h", "t", "t", "p", "s", ":", "/", "/", "h", ":", "1">>,
      <<"h", "t", "t", "p", ":", "/", "/", "h">>,
      <<"h", "t", "t", "p", "s", ":", "/", "/">>,
      <<"h">>,
      <<"h", ":", "1">>,
      <<":", ":", "1">> }

\* Project settings.
Projects == {"", "p1"}

\* s.startswith(prefix)
startswith(s, prefix) ==
    /\ Len(prefix) <= Len(s)
    /\ SubSeq(s, 1, Len(prefix)) = prefix

\* s.split(sep): the pieces of s between the occurrences of sep.
RECURSIVE split(_, _)
split(s, sep) ==
    LET at == {i \in 0..(Len(s) - Len(sep)) : SubSeq(s, i + 1, i + Len(sep)) = sep}
    IN  IF at = {} THEN <<s>>
        ELSE LET i == CHOOSE k \in at : \A j \in at : k <= j
             IN  <<SubSeq(s, 1, i)>> \o split(SubSeq(s, i + Len(sep) + 1, Len(s)), sep)

\* Mutant of get_scheme_and_host: the default port is appended to every
\* specification without a scheme.
get_scheme_and_host_always_port(spec) ==
    IF startswith(spec, <<"u", "n", "i", "x", ":">>)
    THEN [scheme |-> "https+unix", host |-> SubSeq(spec, 6, Len(spec)) \o <<":", "/">>]
    ELSE IF \/ startswith(spec, <<"h", "t", "t", "p", ":", "/", "/">>)
            \/ startswith(spec, <<"h", "t", "t", "p", "s", ":", "/", "/">>)
    THEN [scheme |-> "https", host |-> split(spec, <<":", "/", "/">>)[2]]
    ELSE [scheme |-> "https", host |-> spec \o <<":", "8", "4", "4", "3">>]

\* IncusConsoleProxy.get_scheme_and_host() for self.remote = spec.
get_scheme_and_host(spec) ==
    IF startswith(spec, <<"u", "n", "i", "x", ":">>)
    THEN [scheme |-> "https+unix", host |-> SubSeq(spec, 6, Len(spec)) \o <<":", "/">>]
    ELSE IF \/ startswith(spec, <<"h", "t", "t", "p", ":", "/", "/">>)
            \/ startswith(spec, <<"h", "t", "t", "p", "s", ":", "/", "/">>)
    THEN [scheme |-> "https", host |-> split(spec, <<":", "/", "/">>)[2]]
    ELSE IF ~Contains(<<":">>, spec)
    THEN [scheme |-> "https", host |-> spec \o <<":", "8", "4", "4", "3">>]
    ELSE [scheme |-> "https", host |-> spec]

\* The body create_console posts, by self.is_container.
NoData ==
    [width |-> 0, height |-> 0, type |-> "", force |-> FALSE]

console_data(container) ==
    IF container = "True"
    THEN [width |-> 80, height |-> 25, type |-> "console", force |-> TRUE]
    ELSE [width |-> 1024, height |-> 768, type |-> "vga", force |-> TRUE]

\* Mutant of get_websocat_command: the control secret is put in the URL.
ws_url_with_control_secret(spec, proj, operation_id, secrets) ==
    LET endpoint == get_scheme_and_host(spec)
    IN  IF endpoint.scheme = "https+unix"
        THEN <<"ws+unix:", split(endpoint.host, <<":", "/">>)[1], ":/1.0/operations/",
               operation_id, "/websocket?secret=", secrets[2], "&project=", proj>>
        ELSE <<"wss://", endpoint.host, "/1.0/operations/",
               operation_id, "/websocket?secret=", secrets[2], "&project=", proj>>

\* ws_url of get_websocat_command(operation_id, console_secret), the last
\* element of the websocat command; secrets are the data and the control
\* secret that create_console returned.
ws_url(spec, proj, operation_id, secrets) ==
    LET endpoint == get_scheme_and_host(spec)
    IN  IF endpoint.scheme = "https+unix"
        THEN <<"ws+unix:", split(endpoint.host, <<":", "/">>)[1], ":/1.0/operations/",
               operation_id, "/websocket?secret=", secrets[1], "&project=", proj>>
        ELSE <<"wss://", endpoint.host, "/1.0/operations/",
               operation_id, "/websocket?secret=", secrets[1], "&project=", proj>>

BrokerCall(op, get, post, result) ==
    [op |-> op, get |-> get, post |-> post, result |-> result]

\* What a call returned.
Returned(value) ==
    [ok |-> TRUE, value |-> value, error |-> NoError]

\* IncusConsoleProxy.__init__(remote, project, instance, port) with the
\* remote that main() writes into a new configuration and no project:
\*   self.remote = remote or "unix:/var/lib/incus/unix.socket"
\*   self.project = project or "default"
\*   self.is_container = None
BrokerInit ==
    /\ is_container = "None"
    /\ remote = unix_socket
    /\ project = "default"
    /\ data = NoData
    /\ broker_last = BrokerCall("init", NoAnswer, NoAnswer, Returned(unix_socket))

\* A new IncusConsoleProxy is constructed (ProxyManager.load_config) with the
\* remote and project settings of its section.
IncusConsoleProxy ==
    /\ \E spec \in Remotes, proj \in Projects :
         /\ remote' = IF spec = <<>> THEN unix_socket ELSE spec
         /\ project' = IF proj = "" THEN "default" ELSE proj
         /\ broker_last' = BrokerCall("init", NoAnswer, NoAnswer, Returned(spec))
    /\ is_container' = "None"
    /\ data' = NoData
    /\ UNCHANGED <<regVars, supVars, concVars, cliVars>>

\* start_proxy: if self.is_container is None: await self.determine_instance_type()
determine_instance_type_call ==
    /\ is_container = "None"
    /\ \E get \in GetAnswers :
         /\ is_container' = determine_instance_type(get)
         /\ broker_last' = BrokerCall("determine_instance_type", get, NoAnswer,
                                      [ok |-> TRUE, value |-> <<>>, error |-> NoError])
    /\ data' = NoData
    /\ UNCHANGED <<remote, project>>
    /\ UNCHANGED <<regVars, supVars, concVars, cliVars>>

\* await self.create_console(), the instance type determined first if it is
\* not known yet.
create_console_call ==
    /\ \E get \in GetAnswers, post \in PostAnswers :
         /\ is_container' = IF is_container = "None"
                            THEN determine_instance_type(get)
                            ELSE is_container
         /\ (is_container # "None" => get = NoAnswer)
         /\ broker_last' = BrokerCall("create_console", get, post,
                                      create_console_result(post))
    /\ data' = console_data(is_container')
    /\ UNCHANGED <<remote, project>>
    /\ UNCHANGED <<regVars, supVars, concVars, cliVars>>

\* start_proxy: cmd = self.get_websocat_command(operation_id, console_secret)
\* with what create_console has just returned.
get_websocat_command ==
    /\ broker_last.op = "create_console"
    /\ broker_last.result.ok
    /\ LET returned == broker_last.result.value
       IN  broker_last' =
               BrokerCall("get_websocat_command", broker_last.get, broker_last.post,
                          Returned(ws_url(remote, project, returned[1],
                                          <<returned[2], returned[3]>>)))
    /\ UNCHANGED <<is_container, remote, project, data>>
    /\ UNCHANGED <<regVars, supVars, concVars, cliVars>>

(***************************************************************************)
(* IncusConsoleProxy.start_proxy, one task per bridge (ProxyManager.start_all)*)
(*                                                                         *)
(* pc follows the bridge states of the design: Resolving (awaiting         *)
(* create_console), Spawning (awaiting create_subprocess_exec), Running    *)
(* (the monitoring loop), Failed (entering `except Exception`), Reaping    *)
(* (awaiting process.wait() in that handler), Retrying (awaiting the       *)
(* backoff sleep), GivenUp, and for cancellation StopReaping (awaiting     *)
(* process.wait() in `except CancelledError`), Stopped, and Cancelled (the *)
(* CancelledError left start_proxy from inside the failure handler) and    *)
(* Crashed (another exception left start_proxy).                           *)
(***************************************************************************)
Bridges == {1, 2}

\* process.returncode: <<>> for None, <<code>> once the child has exited.
NoProcess ==
    [attempt |-> 0, secret |-> 0, alive |-> FALSE, stubborn |-> FALSE,
     term |-> FALSE, returncode |-> <<>>]

\* 'process' in locals()
Bound(b) ==
    process[b].attempt # 0

\* `process` is assigned only by create_subprocess_exec, so in an attempt that
\* failed before it the name still refers to the child of an earlier attempt,
\* which the handler of that attempt has already waited for.
Stale(b) ==
    Bound(b) /\ process[b].attempt # attempt[b]

\* IncusConsoleProxy.__init__ for every bridge, and the tasks just created.
SupInit ==
    /\ pc = [b \in Bridges |-> "Resolving"]
    /\ retry_count = [b \in Bridges |-> 0]
    /\ attempt = [b \in Bridges |-> 1]
    /\ console_secret = [b \in Bridges |-> 0]
    /\ process = [b \in Bridges |-> NoProcess]
    /\ orphans = [b \in Bridges |-> 0]
    /\ cancel_requested = [b \in Bridges |-> FALSE]
    /\ e = [b \in Bridges |-> NoError]
    /\ exit_status = "running"

\* The same with a configuration that names one instance: load_config makes
\* one IncusConsoleProxy and start_all one task; the other bridge is absent.
SoloInit ==
    /\ pc = [b \in Bridges |-> IF b = 1 THEN "Resolving" ELSE "Absent"]
    /\ retry_count = [b \in Bridges |-> 0]
    /\ attempt = [b \in Bridges |-> 1]
    /\ console_secret = [b \in Bridges |-> 0]
    /\ process = [b \in Bridges |-> NoProcess]
    /\ orphans = [b \in Bridges |-> 0]
    /\ cancel_requested = [b \in Bridges |-> FALSE]
    /\ e = [b \in Bridges |-> NoError]
    /\ exit_status = "running"

Init ==
    /\ ProxyInit
    /\ SupInit
    /\ BrokerInit
    /\ ConcInit
    /\ CliInit

\* process.terminate(): SIGTERM to the child if it is still there.
terminate(p) ==
    IF p.alive THEN [p EXCEPT !.term = TRUE] ELSE p

\* operation_id, console_secret, control_secret = await self.create_console()
\* The request succeeds and binds this attempt's secret, or raises.
create_console(b) ==
    /\ pc[b] = "Resolving"
    /\ ~cancel_requested[b]
    /\ \E post \in PostAnswers :
         LET result == create_console_result(post)
         IN  IF result.ok
             THEN /\ console_secret' = [console_secret EXCEPT ![b] = attempt[b]]
                  /\ pc' = [pc EXCEPT ![b] = "Spawning"]
                  /\ UNCHANGED e
             ELSE /\ pc' = [pc EXCEPT ![b] = "Failed"]
                  /\ e' = [e EXCEPT ![b] = result.error]
                  /\ UNCHANGED console_secret
    /\ UNCHANGED <<retry_count, attempt, process, orphans, cancel_requested,
                   exit_status>>
    /\ UNCHANGED <<regVars, brokerVars, concVars, cliVars>>

\* Mutant of create_subprocess_exec: retry_count is not reset on a start.
create_subprocess_exec_without_reset(b) ==
    /\ pc[b] = "Spawning"
    /\ ~cancel_requested[b]
    /\ \E ok, stubborn \in BOOLEAN :
         IF ok
         THEN /\ process' = [process EXCEPT ![b] =
                    [attempt |-> attempt[b], secret |-> console_secret[b],
                     alive |-> TRUE, stubborn |-> stubborn, term |-> FALSE,
                     returncode |-> <<>>]]
              /\ orphans' = [orphans EXCEPT ![b] =
                    IF process[b].alive THEN @ + 1 ELSE @]
              /\ pc' = [pc EXCEPT ![b] = "Running"]
              /\ UNCHANGED <<retry_count, e>>
         ELSE /\ stubborn = FALSE
              /\ pc' = [pc EXCEPT ![b] = "Failed"]
              /\ e' = [e EXCEPT ![b] = Error("FileNotFoundError", 0, "")]
              /\ UNCHANGED <<process, orphans, retry_count>>
    /\ UNCHANGED <<attempt, console_secret, cancel_requested, exit_status>>
    /\ UNCHANGED <<regVars, brokerVars, concVars, cliVars>>

\* cmd = self.get_websocat_command(operation_id, console_secret)
\* process = await asyncio.create_subprocess_exec(*cmd, ...)
\* self.retry_count = 0
create_subprocess_exec(b) ==
    /\ pc[b] = "Spawning"
    /\ ~cancel_requested[b]
    /\ \E ok, stubborn \in BOOLEAN :
         IF ok
         THEN /\ process' = [process EXCEPT ![b] =
                    [attempt |-> attempt[b], secret |-> console_secret[b],
                     alive |-> TRUE, stubborn |-> stubborn, term |-> FALSE,
                     returncode |-> <<>>]]
              /\ orphans' = [orphans EXCEPT ![b] =
                    IF process[b].alive THEN @ + 1 ELSE @]
              /\ retry_count' = [retry_count EXCEPT ![b] = 0]
              /\ pc' = [pc EXCEPT ![b] = "Running"]
              /\ UNCHANGED e
         ELSE /\ stubborn = FALSE
              /\ pc' = [pc EXCEPT ![b] = "Failed"]
              /\ e' = [e EXCEPT ![b] = Error("FileNotFoundError", 0, "")]
              /\ UNCHANGED <<process, orphans, retry_count>>
    /\ UNCHANGED <<attempt, console_secret, cancel_requested, exit_status>>
    /\ UNCHANGED <<regVars, brokerVars, concVars, cliVars>>

\* Mutant of monitor: only a non-zero exit code is taken for a failure.
monitor_nonzero_only(b) ==
    /\ pc[b] = "Running"
    /\ ~cancel_requested[b]
    /\ process[b].returncode \notin {<<>>, <<0>>}
    /\ pc' = [pc EXCEPT ![b] = "Failed"]
    /\ e' = [e EXCEPT ![b] = Error("Proxy process exited with code", 0, "")]
    /\ UNCHANGED <<retry_count, attempt, console_secret, process, orphans,
                   cancel_requested, exit_status>>
    /\ UNCHANGED <<regVars, brokerVars, concVars, cliVars>>

\* The monitoring loop: the readline() calls return (a line, or b'' at end of
\* file), then  if process.returncode is not None: raise Exception(...)
monitor(b) ==
    /\ pc[b] = "Running"
    /\ ~cancel_requested[b]
    /\ process[b].returncode # <<>>
    /\ pc' = [pc EXCEPT ![b] = "Failed"]
    /\ e' = [e EXCEPT ![b] = Error("Proxy process exited with code", 0, "")]
    /\ UNCHANGED <<retry_count, attempt, console_secret, process, orphans,
                   cancel_requested, exit_status>>
    /\ UNCHANGED <<regVars, brokerVars, concVars, cliVars>>

\* Mutant of retry_or_give_up: >= for >.
retry_or_give_up_one_early(count) ==
    IF count + 1 >= MAX_RETRIES THEN "GivenUp" ELSE "Retrying"

\* self.retry_count += 1
\* if self.retry_count > MAX_RETRIES: break
\* await asyncio.sleep(RETRY_DELAY)
\* The bridge state after the failure is counted.
retry_or_give_up(count) ==
    IF count + 1 > MAX_RETRIES THEN "GivenUp" ELSE "Retrying"

\* except Exception as e: logger.error(e); if 'process' in locals():
\* process.terminate(); await process.wait() -- and, with no process bound,
\* straight on to the count.  On a child that has exited, terminate() does
\* nothing if the transport still holds it and raises ProcessLookupError once
\* the transport has let go of it, which it has when process.wait() has
\* returned for that child; that exception leaves start_proxy.
failure_handler(b) ==
    /\ pc[b] = "Failed"
    /\ \E lookup_error \in BOOLEAN :
         IF Bound(b)
         THEN IF lookup_error
              THEN /\ ~process[b].alive
                   /\ pc' = [pc EXCEPT ![b] = "Crashed"]
                   /\ UNCHANGED <<process, retry_count>>
              ELSE /\ ~Stale(b)
                   /\ process' = [process EXCEPT ![b] = terminate(@)]
                   /\ pc' = [pc EXCEPT ![b] = "Reaping"]
                   /\ UNCHANGED retry_count
         ELSE /\ ~lookup_error
              /\ retry_count' = [retry_count EXCEPT ![b] = @ + 1]
              /\ pc' = [pc EXCEPT ![b] = retry_or_give_up(retry_count[b])]
              /\ UNCHANGED process
    /\ e' = [e EXCEPT ![b] = NoError]
    /\ UNCHANGED <<attempt, console_secret, orphans, cancel_requested,
                   exit_status>>
    /\ UNCHANGED <<regVars, brokerVars, concVars, cliVars>>

\* await process.wait() returns in the failure handler: the child has exited.
reaped(b) ==
    /\ pc[b] = "Reaping"
    /\ ~cancel_requested[b]
    /\ ~process[b].alive
    /\ retry_count' = [retry_count EXCEPT ![b] = @ + 1]
    /\ pc' = [pc EXCEPT ![b] = retry_or_give_up(retry_count[b])]
    /\ UNCHANGED <<attempt, console_secret, process, orphans, cancel_requested,
                   e, exit_status>>
    /\ UNCHANGED <<regVars, brokerVars, concVars, cliVars>>

\* Mutant of backoff_elapsed: a retry that holds a secret skips create_console.
backoff_elapsed_reusing_session(b) ==
    /\ pc[b] = "Retrying"
    /\ ~cancel_requested[b]
    /\ attempt[b] < MaxAttempts
    /\ attempt' = [attempt EXCEPT ![b] = @ + 1]
    /\ pc' = [pc EXCEPT ![b] =
                 IF console_secret[b] # 0 THEN "Spawning" ELSE "Resolving"]
    /\ UNCHANGED <<retry_count, console_secret, process, orphans,
                   cancel_requested, e, exit_status>>
    /\ UNCHANGED <<regVars, brokerVars, concVars, cliVars>>

\* await asyncio.sleep(RETRY_DELAY) returns: next iteration of `while True`.
backoff_elapsed(b) ==
    /\ pc[b] = "Retrying"
    /\ ~cancel_requested[b]
    /\ attempt[b] < MaxAttempts
    /\ attempt' = [attempt EXCEPT ![b] = @ + 1]
    /\ pc' = [pc EXCEPT ![b] = "Resolving"]
    /\ UNCHANGED <<retry_count, console_secret, process, orphans,
                   cancel_requested, e, exit_status>>
    /\ UNCHANGED <<regVars, brokerVars, concVars, cliVars>>

\* The websocat child of a bridge exits by itself, with status 0 or not.  What
\* is recorded of a child that is gone is its exit status only.
websocat_exit(b) ==
    /\ process[b].alive
    /\ \E code \in {0, 1} :
         process' = [process EXCEPT ![b].alive = FALSE, ![b].term = FALSE,
                                    ![b].stubborn = FALSE,
                                    ![b].returncode = <<code>>]
    /\ UNCHANGED <<pc, retry_count, attempt, console_secret, orphans,
                   cancel_requested, e, exit_status>>
    /\ UNCHANGED <<regVars, brokerVars, concVars, cliVars>>

\* SIGTERM takes effect on a child that does not ignore it.
sigterm_exit(b) ==
    /\ process[b].alive
    /\ process[b].term
    /\ ~process[b].stubborn
    /\ process' = [process EXCEPT ![b].alive = FALSE, ![b].term = FALSE,
                                  ![b].returncode = <<-15>>]
    /\ UNCHANGED <<pc, retry_count, attempt, console_secret, orphans,
                   cancel_requested, e, exit_status>>
    /\ UNCHANGED <<regVars, brokerVars, concVars, cliVars>>

\* SIGINT/SIGTERM: signal_handler runs manager.cleanup() (pkill -f websocat_max:
\* SIGTERM to every websocat) and sys.exit(0); asyncio.run then cancels every
\* task that is not done.
signal_handler ==
    /\ exit_status = "running"
    /\ \E b \in Bridges : ~cancel_requested[b]
    /\ process' = [b \in Bridges |-> terminate(process[b])]
    /\ cancel_requested' = [b \in Bridges |-> TRUE]
    /\ exit_status' = "exit 0"
    /\ UNCHANGED <<pc, retry_count, attempt, console_secret, orphans, e>>
    /\ UNCHANGED <<regVars, brokerVars, concVars, cliVars>>

\* ProxyManager.start_all: await asyncio.gather(*tasks) raises the exception
\* that left one start_proxy; finally: self.cleanup() (pkill -f websocat_max);
\* the exception leaves asyncio.run, which cancels every task that is not
\* done; main(): except Exception: sys.exit(1).
start_all_failed ==
    /\ exit_status = "running"
    /\ \E b \in Bridges : pc[b] = "Crashed"
    /\ process' = [b \in Bridges |-> terminate(process[b])]
    /\ cancel_requested' = [b \in Bridges |-> TRUE]
    /\ exit_status' = "exit 1"
    /\ UNCHANGED <<pc, retry_count, attempt, console_secret, orphans, e>>
    /\ UNCHANGED <<regVars, brokerVars, concVars, cliVars>>

\* The CancelledError is delivered at the await the task is suspended in.
\* In the try body: except asyncio.CancelledError: terminate, wait, break
\* (terminate() on a child that has exited as in failure_handler).
\* In the failure handler (process.wait(), the backoff sleep): it leaves
\* start_proxy.
cancelled(b) ==
    /\ cancel_requested[b]
    /\ pc[b] \in {"Resolving", "Spawning", "Running", "Reaping", "Retrying"}
    /\ \E lookup_error \in BOOLEAN :
         IF pc[b] \in {"Reaping", "Retrying"}
         THEN /\ ~lookup_error
              /\ pc' = [pc EXCEPT ![b] = "Cancelled"]
              /\ UNCHANGED process
         ELSE IF Bound(b)
              THEN IF lookup_error
                   THEN /\ ~process[b].alive
                        /\ pc' = [pc EXCEPT ![b] = "Crashed"]
                        /\ UNCHANGED process
                   ELSE /\ ~Stale(b)
                        /\ process' = [process EXCEPT ![b] = terminate(@)]
                        /\ pc' = [pc EXCEPT ![b] = "StopReaping"]
              ELSE /\ ~lookup_error
                   /\ pc' = [pc EXCEPT ![b] = "Stopped"]
                   /\ UNCHANGED process
    /\ UNCHANGED <<retry_count, attempt, console_secret, orphans,
                   cancel_requested, e, exit_status>>
    /\ UNCHANGED <<regVars, brokerVars, concVars, cliVars>>

\* await process.wait() returns in `except CancelledError`; break.
stop_reaped(b) ==
    /\ pc[b] = "StopReaping"
    /\ ~process[b].alive
    /\ pc' = [pc EXCEPT ![b] = "Stopped"]
    /\ UNCHANGED <<retry_count, attempt, console_secret, process, orphans,
                   cancel_requested, e, exit_status>>
    /\ UNCHANGED <<regVars, brokerVars, concVars, cliVars>>

\* What the task of a bridge presents to whoever awaits it (asyncio.gather in
\* start_all): both `break`s fall off the end of start_proxy, which returns
\* None; a CancelledError or another exception that leaves it ends the task
\* with that exception.
start_proxy_result(b) ==
    IF pc[b] \in {"GivenUp", "Stopped"} THEN "None"
    ELSE IF pc[b] = "Cancelled" THEN "CancelledError"
    ELSE IF pc[b] = "Crashed" THEN "ProcessLookupError"
    ELSE "pending"

(***************************************************************************)
(* Specifications                                                          *)
(***************************************************************************)
Next ==
    \/ \E name \in InstanceNames : proxy_shell(name)
    \/ \E name \in InstanceNames, use_vga \in BOOLEAN : proxy_console(name, use_vga)
    \/ \E name \in StopNames : stop_proxy(name)
    \/ list_active
    \/ cleanup
    \/ \E pid \in DOMAIN procs : child_exit(pid)

Spec == Init /\ [][Next]_vars

BridgeStep(b) ==
    \/ create_console(b)
    \/ create_subprocess_exec(b)
    \/ monitor(b)
    \/ failure_handler(b)
    \/ reaped(b)
    \/ backoff_elapsed(b)
    \/ cancelled(b)
    \/ stop_reaped(b)

SupNext ==
    \/ \E b \in Bridges : BridgeStep(b)
    \/ \E b \in Bridges : websocat_exit(b)
    \/ \E b \in Bridges : sigterm_exit(b)
    \/ signal_handler
    \/ start_all_failed

\* The state after construction when the configuration names one instance.
InitSolo == ProxyInit /\ SoloInit /\ BrokerInit /\ ConcInit /\ CliInit

\* One bridge under the same scheduling.
SoloFairSpec ==
    /\ InitSolo
    /\ [][SupNext]_vars
    /\ \A b \in Bridges : WF_vars(BridgeStep(b))
    /\ \A b \in Bridges : WF_vars(sigterm_exit(b))

ThreadStep(t) ==
    \/ thread_proxy_shell(t)
    \/ stop_proxy_begin(t)
    \/ stop_proxy_next(t)
    \/ stop_proxy_socket(t)
    \/ stop_proxy_del(t)
    \/ list_active_begin(t)
    \/ list_active_next(t)
    \/ proxy_vga_console_begin(t)
    \/ remote_viewer_invoked(t)
    \/ proxy_vga_console_end(t)

ConcNext ==
    \E t \in Threads : ThreadStep(t)

ConcSpec == Init /\ [][ConcNext]_vars

\* The --type choices of the stop command.
ProxyTypes == {shell, console, vga, <<"a", "l", "l">>}

CliNext ==
    \/ cli_main
    \/ cli_generate
    \/ \E instance \in StopNames : cli_shell(instance)
    \/ \E instance \in StopNames, use_vga \in BOOLEAN : cli_console(instance, use_vga)
    \/ cli_wait_returns
    \/ cli_interrupt
    \/ \E instance \in StopNames, proxy_type \in ProxyTypes : cli_stop(instance, proxy_type)
    \/ cli_list
    \/ cli_exit
    \/ \E pid \in DOMAIN procs : child_exit(pid)

CliSpec == Init /\ [][CliNext]_vars

BrokerNext ==
    \/ IncusConsoleProxy
    \/ determine_instance_type_call
    \/ create_console_call
    \/ get_websocat_command

BrokerSpec == Init /\ [][BrokerNext]_vars

SupSpec == Init /\ [][SupNext]_vars

\* The event loop runs every task that can run, and a signalled child that
\* does not ignore SIGTERM exits.
SupFairSpec ==
    /\ SupSpec
    /\ \A b \in Bridges : WF_vars(BridgeStep(b))
    /\ \A b \in Bridges : WF_vars(sigterm_exit(b))

(***************************************************************************)
(* Claims about start_proxy (SupSpec, SupFairSpec)                         *)
(***************************************************************************)

\* C1 as stated: if every attempt of a bridge fails, whatever the cause, the
\* bridge gives up after MAX_RETRIES + 1 consecutive failed attempts and no
\* further attempt is made.  (Attempt k is only begun after attempts 1..k-1
\* have all failed.)
C1_NoAttemptBeyondCap ==
    \A b \in Bridges : attempt[b] <= MAX_RETRIES + 1

\* C1 amended: if every attempt of a bridge fails before its child process is
\* created (console negotiation error or spawn error), the bridge is GivenUp
\* after exactly MAX_RETRIES + 1 consecutive failed attempts: it retries after
\* each of the first MAX_RETRIES, and never begins attempt MAX_RETRIES + 2.
C1_GivesUpWithoutChild ==
    \A b \in Bridges :
        ~Bound(b) =>
            /\ attempt[b] <= MAX_RETRIES + 1
            /\ (pc[b] = "Retrying" => attempt[b] <= MAX_RETRIES)
            /\ (pc[b] = "GivenUp" => attempt[b] = MAX_RETRIES + 1)

C1_Witness ==
    \E b \in Bridges :
        /\ ~Bound(b)
        /\ pc[b] = "GivenUp"
        /\ attempt[b] = MAX_RETRIES + 1

\* C2: retry_count is 0 whenever the bridge is Running, so the failure of an
\* attempt that created its child leaves the counter at 1, however many
\* failures came before that start.
C2_CounterRestarts ==
    \A b \in Bridges :
        /\ (pc[b] = "Running" => retry_count[b] = 0)
        /\ (pc[b] = "Retrying" /\ process[b].attempt = attempt[b]
               => retry_count[b] = 1)
        /\ (pc[b] = "GivenUp" => process[b].attempt # attempt[b])

\* Two failures, a start in the third attempt, and that attempt has failed.
C2_Witness ==
    \E b \in Bridges :
        /\ pc[b] = "Retrying"
        /\ attempt[b] = MAX_RETRIES
        /\ process[b].attempt = attempt[b]
        /\ retry_count[b] = 1

\* C8 as stated: after a shutdown request every bridge's child process ends up
\* terminated (by force if SIGTERM does not do it).
C8_ShutdownEndsEveryChild ==
    (\E b \in Bridges : cancel_requested[b]) ~> (\A b \in Bridges : ~process[b].alive)

\* C11: a child that exits while its bridge is Running and no stop has been
\* requested, whatever its exit code, is detected by the monitoring loop: the
\* bridge leaves Running only for Failed, and it does so eventually unless a
\* stop is requested first.
C11_ExitLeadsToFailed ==
    /\ [][\A b \in Bridges :
             (pc[b] = "Running" /\ ~cancel_requested[b]) =>
                 pc'[b] \in {"Running", "Failed"}]_vars
    /\ \A b \in Bridges :
           (pc[b] = "Running" /\ ~process[b].alive /\ ~cancel_requested[b])
               ~> (pc[b] = "Failed" \/ cancel_requested[b])

\* The monitoring loop has raised for a child of this attempt, started in a
\* retry, that exited with status 0.
C11_Witness ==
    \E b \in Bridges :
        /\ pc[b] = "Failed"
        /\ e[b].text = "Proxy process exited with code"
        /\ process[b].attempt = attempt[b]
        /\ attempt[b] >= 2
        /\ process[b].returncode = <<0>>

C12_GivenUpDistinctFromStopped ==
    \A b1, b2 \in Bridges :
        (pc[b1] = "GivenUp" /\ pc[b2] = "Stopped") =>
            start_proxy_result(b1) # start_proxy_result(b2)

\* What belongs to one bridge: its state, its counter, its child and whether
\* its task is still being run (no cancellation pending).
BridgeState(b) ==
    <<pc[b], retry_count[b], process[b], cancel_requested[b]>>

\* C13 as stated: apart from the shutdown signal, which stops every bridge, no
\* step that changes one bridge (its failure, retry or give-up among them)
\* changes the state, the retry counter or the child of another bridge or
\* ends the supervision of another bridge.
C13_FailureStaysLocal ==
    [][~(exit_status = "running" /\ exit_status' = "exit 0") =>
          \A b, s \in Bridges :
              (b # s /\ BridgeState(b)' # BridgeState(b)) =>
                  BridgeState(s)' = BridgeState(s)]_vars

\* C16 as stated: a console request answered with a status other than 200 and
\* 202 fails with an exception whose message carries the status and the body;
\* no child is spawned in that attempt; and when it is the bridge's first
\* failure the handler leaves the bridge Retrying with retry_count 1.
C16_BadStatusRetries ==
    [][\A b \in Bridges :
          (pc[b] = "Failed" /\ e[b].status \notin {0, 200, 202}) =>
              /\ e[b].body # ""
              /\ process[b].attempt # attempt[b]
              /\ (attempt[b] = 1 /\ pc'[b] # pc[b]) =>
                     /\ pc'[b] = "Retrying"
                     /\ retry_count'[b] = 1
                     /\ ~Bound(b)']_vars

(***************************************************************************)
(* Claims about the session broker (BrokerSpec)                            *)
(***************************************************************************)
\* The metadata query did not return a body: no connection, a body that is not
\* JSON, or a status other than 200 and 202.
QueryFailed(answer) ==
    \/ ~answer.connect
    \/ ~answer.json
    \/ answer.status \notin {200, 202}

\* C14: determine_instance_type always returns, leaving is_container True or
\* False; True whenever the metadata query failed; False exactly when the
\* query returned metadata whose type is "virtual-machine".
C14_ClassifyFallsBack ==
    broker_last.op = "determine_instance_type" =>
        /\ broker_last.result.ok
        /\ is_container \in {"True", "False"}
        /\ (QueryFailed(broker_last.get) => is_container = "True")
        /\ (is_container = "False" <=>
               /\ ~QueryFailed(broker_last.get)
               /\ broker_last.get.data.metadata = "object"
               /\ broker_last.get.data.type = "virtual-machine")

\* determine_instance_type has returned after a query that was answered with
\* status 500 for an instance that is a virtual machine.
C14_Witness ==
    /\ broker_last.op = "determine_instance_type"
    /\ broker_last.get.connect
    /\ broker_last.get.status = 500
    /\ broker_last.get.data.type = "virtual-machine"
    /\ is_container = "True"

\* C15: create_console raises, returning nothing, whenever the response lacks
\* the data secret (fds["0"]) or the control secret (fds["control"]); when it
\* returns, both are present and it returns the last segment of the operation
\* path with the two secrets of the response.
C15_SecretsRequired ==
    broker_last.op = "create_console" =>
        LET body == broker_last.post.data
            result == broker_last.result
        IN  /\ (body.fd0 \in {"absent", ""} \/ body.control \in {"absent", ""}) =>
                   /\ ~result.ok
                   /\ result.value = <<>>
            /\ result.ok =>
                   /\ body.fd0 = "s-data"
                   /\ body.control = "s-control"
                   /\ result.value = <<"op7", "s-data", "s-control">>

\* create_console has raised on a 202 response that has the data secret and
\* no control secret.
C15_Witness ==
    /\ broker_last.op = "create_console"
    /\ broker_last.post.json
    /\ broker_last.post.status = 202
    /\ broker_last.post.data.fd0 = "s-data"
    /\ broker_last.post.data.control = "absent"
    /\ ~broker_last.result.ok
    /\ broker_last.result.error.text = "Failed to get console secrets"

(***************************************************************************)
(* Claims about the Proxy registry (Spec)                                  *)
(***************************************************************************)
BridgeKinds == {shell, console, vga}

HasBridge(name) ==
    \E kind \in BridgeKinds : Key(kind, name) \in DOMAIN active_proxies

\* C3 as stated: every live bridge process is the one the registry tracks
\* under its key, so there is at most one live bridge per key and none that
\* the registry has lost.
C3_OneLiveBridgePerKey ==
    \A pid \in DOMAIN procs :
        (procs[pid].alive /\ procs[pid].prog \in BridgeKinds) =>
            LET key == Key(procs[pid].prog, procs[pid].inst)
            IN  /\ key \in DOMAIN active_proxies
                /\ active_proxies[key] = pid

\* C4 as stated: stop_proxy for an instance that has no bridge in the registry
\* changes neither active_proxies nor socket_paths and signals no process.
C4_StopUnknownIsNoOp ==
    [][(last'.op = "stop_proxy" /\ ~HasBridge(last'.arg))
          => UNCHANGED <<active_proxies, socket_paths, procs>>]_vars

\* C5 as stated: stop_proxy(instance) leaves the bridges and the socket path
\* of every other instance as they were.
C5_StopIsTargeted ==
    [][last'.op = "stop_proxy" =>
          /\ \A key \in DOMAIN active_proxies :
                 Split1(key)[2] # last'.arg =>
                     /\ key \in DOMAIN active_proxies'
                     /\ active_proxies'[key] = active_proxies[key]
                     /\ procs'[active_proxies[key]] = procs[active_proxies[key]]
          /\ \A name \in DOMAIN socket_paths :
                 name # last'.arg =>
                     /\ name \in DOMAIN socket_paths'
                     /\ socket_paths'[name] = socket_paths[name]]_vars

\* C6: stop_proxy on an instance with a live bridge sends SIGTERM first and
\* SIGKILL only to a process that outlives the grace period; when it returns
\* the key is gone from active_proxies, the process is not alive and the
\* instance has no entry in socket_paths.
C6_StopTerminatesAndForgets ==
    [][last'.op = "stop_proxy" =>
          \A kind \in BridgeKinds :
              LET key == Key(kind, last'.arg)
              IN  (key \in DOMAIN active_proxies /\ Running(active_proxies[key])) =>
                      LET pid == active_proxies[key]
                      IN  /\ key \notin DOMAIN active_proxies'
                          /\ ~procs'[pid].alive
                          /\ procs'[pid].signals =
                                 IF procs[pid].stubborn
                                 THEN <<"TERM", "KILL">>
                                 ELSE <<"TERM">>
                          /\ last'.arg \notin DOMAIN socket_paths']_vars

\* stop_proxy has just stopped a bridge of its instance, one by SIGTERM and
\* one that needed SIGKILL.
C6_Witness ==
    /\ last.op = "stop_proxy"
    /\ \E pid \in DOMAIN procs :
           /\ procs[pid].inst = last.arg
           /\ procs[pid].signals = <<"TERM", "KILL">>
    /\ \E pid \in DOMAIN procs :
           /\ procs[pid].inst = last.arg
           /\ procs[pid].signals = <<"TERM">>
    /\ ~HasBridge(last.arg)

\* C7: every entry list_active returns is a registered key whose process is
\* running at the time of the call, reported with the kind and instance the
\* bridge was started for and with its pid.
C7_ListReportsOnlyRunning ==
    last.op = "list_active" =>
        \A key \in DOMAIN last.ret :
            LET entry == last.ret[key]
            IN  /\ key \in DOMAIN active_proxies
                /\ active_proxies[key] = entry.pid
                /\ procs[entry.pid].alive
                /\ entry.type = procs[entry.pid].prog
                /\ entry.instance = procs[entry.pid].inst

\* list_active has just returned a bridge while another registered bridge,
\* whose process has exited, is left out.
C7_Witness ==
    /\ last.op = "list_active"
    /\ last.ret # EmptyDict
    /\ \E key \in DOMAIN active_proxies :
           /\ ~Running(active_proxies[key])
           /\ key \notin DOMAIN last.ret

\* C9 as stated: a console start that fails leaves no process it started
\* running and no new entry in active_proxies or socket_paths.
C9_FailedStartLeavesNothing ==
    [][(last'.op = "proxy_console" /\ ~last'.ok) =>
          /\ \A pid \in (DOMAIN procs') \ (DOMAIN procs) : ~procs'[pid].alive
          /\ active_proxies' = active_proxies
          /\ socket_paths' = socket_paths]_vars

\* The graphical start that the step has made: the console client was started
\* for the instance of the call.
VgaNegotiated ==
    /\ last'.op = "proxy_console"
    /\ Len(procs') > Len(procs)
    /\ procs'[Len(procs) + 1].prog = incus

\* C17: a graphical start whose capture log never holds a socket path ends in
\* the timeout error of _get_socket_path_from_log (no path and no empty result
\* is returned), fails, and adds nothing to active_proxies or socket_paths.
\* (The log that is polled never holds a path: see fake_remote_viewer.)
C17_TimeoutFailsTheStart ==
    [][VgaNegotiated =>
          /\ ~last'.ok
          /\ last'.ret = [error |-> "Timeout waiting for socket path"]
          /\ active_proxies' = active_proxies
          /\ socket_paths' = socket_paths]_vars

\* A graphical start for a virtual machine has just failed with the timeout
\* error while a bridge of that instance is registered.
C17_Witness ==
    /\ last = Call("proxy_console", web1, FALSE,
                   [error |-> "Timeout waiting for socket path"])
    /\ \E pid \in DOMAIN procs : procs[pid].prog = incus
    /\ Key(shell, web1) \in DOMAIN active_proxies

\* C18 as stated: once a graphical negotiation has ended, however it ended,
\* neither the stand-in remote-viewer file nor a capture log (written by the
\* stand-in, or the temporary file of that name) is on disk.
C18_NoNegotiationFilesRemain ==
    \A path \in DOMAIN files :
        /\ path # viewer_path
        /\ path[1] # "console-share-"

\* The file the stand-in written for the negotiation of thread t writes to.
capture_target(t) ==
    fake_remote_viewer(threads[t].socket_log).writes_to

\* C19: while two negotiations for different instances run concurrently, once
\* the console client of a negotiation has run remote-viewer, the file that
\* this negotiation's own stand-in writes to holds the socket path of this
\* negotiation's own instance.
C19_CaptureTargetsKeptApart ==
    \A t \in Threads :
      (threads[t].pc = "vga_poll" /\ threads[t].invoked)
        => /\ capture_target(t) \in DOMAIN files
           /\ files[capture_target(t)] =
                 <<"unix-socket=", SocketOf(ThreadInstance(t))>>

\* A call on the registry ended with an exception of the dict itself.
dict_error ==
    /\ ~last.ok
    /\ last.ret \in {[error |-> "RuntimeError"], [error |-> "KeyError"]}

\* C20: with start, stop and list called from two threads for different
\* instances, no call ends with an error of the registry dict, and when a
\* stop has returned no bridge of its instance is left registered.
C20_ConcurrentCallsAreSafe ==
    /\ ~dict_error
    /\ last.op = "stop_proxy"
         => \A key \in DOMAIN active_proxies : ~Contains(last.arg, key)

(***************************************************************************)
(* Claims about the command                                                *)
(***************************************************************************)
\* The console command has just started a bridge for this instance: the
\* call of proxy_console returned a port.
ConsoleStarted(instance, use_vga) ==
    /\ cli.pc = "started"
    /\ cli'.command = "console"
    /\ cli'.instance = instance
    /\ cli'.key = (IF use_vga THEN Key(vga, instance) ELSE Key(console, instance))
    /\ last'.op = "proxy_console"
    /\ last'.ok

\* C21: when `console --vga` has started the bridge of an instance that
\* get_instance reports as a virtual machine, the bridge is registered under
\* vga_<instance>, its socat connects to a Unix socket, and list_active
\* reports that key with an integer pid.
C21_VgaStartRegistersVgaKey ==
    [][\A instance \in InstanceNames :
         (/\ ConsoleStarted(instance, TRUE)
          /\ get_instance(incus_list(instance, RUNNING))[1].type = "VIRTUAL-MACHINE")
           => /\ Key(vga, instance) \in DOMAIN active_proxies'
              /\ procs'[active_proxies'[Key(vga, instance)]].prog = vga
              /\ Key(vga, instance) \in DOMAIN list_active_result'
              /\ list_active_result'[Key(vga, instance)].pid \in Nat]_vars

\* C27: the stop command, and the interrupt of a shell or console command
\* that waits on a running bridge, end without error, and afterwards the
\* bridge of the requested kind is not running and not registered.
C27_StopPathsStopTheBridge ==
    [][/\ (cli.pc = "started" /\ cli'.command = "stop")
            => /\ cli'.error = ""
               /\ \A key \in DOMAIN active_proxies' : ~Contains(cli'.instance, key)
       /\ (cli.pc = "waiting" /\ cli'.pc = "exiting" /\ Running(active_proxies[cli.key]))
            => /\ cli'.error = ""
               /\ ~procs'[active_proxies[cli.key]].alive
               /\ cli.key \notin DOMAIN active_proxies']_vars

\* C28: when --generate has listed the instances and ended, the file holds
\* one entry per instance, vga for a virtual machine and shell otherwise,
\* with port start_port + i and enabled; the configuration in memory is what
\* the file holds; and the status is 0.
C28_GeneratePersists ==
    (cli.pc = "exited" /\ cli.command = "generate" /\ cli.error # "IncusError")
      => /\ cli.status = 0
         /\ "instances" \in DOMAIN config_file.doc
         /\ config_file.doc = config
         /\ DOMAIN config.instances = InstanceNames
         /\ \A name \in InstanceNames :
              /\ config.instances[name].type =
                    (IF InstanceType(name) = "virtual-machine" THEN "vga" ELSE "shell")
              /\ config.instances[name].enabled
         /\ \A n1, n2 \in InstanceNames :
              n1 # n2 => config.instances[n1].port # config.instances[n2].port

\* C29: whenever the console command has started a bridge, with or without
\* --vga and for a container or a virtual machine, the key it goes on to wait
\* on is a key of the registry.
C29_WaitsOnTheRegisteredKey ==
    [][\A instance \in InstanceNames, use_vga \in BOOLEAN :
         ConsoleStarted(instance, use_vga) => cli'.key \in DOMAIN active_proxies']_vars

\* C30: two registered bridges that run at the same time listen on different
\* ports.
C30_PortsAreDistinct ==
    \A k1, k2 \in DOMAIN active_proxies :
      (k1 # k2 /\ Running(active_proxies[k1]) /\ Running(active_proxies[k2]))
        => procs[active_proxies[k1]].port # procs[active_proxies[k2]].port

HTTP == <<"h", "t", "t", "p", ":", "/", "/">>
HTTPS == <<"h", "t", "t", "p", "s", ":", "/", "/">>
UNIX == <<"u", "n", "i", "x", ":">>

\* The mapping of get_scheme_and_host without the first case.
ResolveNetworked ==
    LET r == get_scheme_and_host(remote)
    IN  /\ (startswith(remote, HTTP) \/ startswith(remote, HTTPS)) =>
              /\ r.scheme = "https"
              /\ remote \in {HTTP \o r.host, HTTPS \o r.host}
        /\ (/\ ~startswith(remote, UNIX)
            /\ ~startswith(remote, HTTP)
            /\ ~startswith(remote, HTTPS)) =>
              /\ r.scheme = "https"
              /\ IF Contains(<<":">>, remote)
                 THEN r.host = remote
                 ELSE r.host = remote \o <<":", "8", "4", "4", "3">>

\* C23 as stated: whenever the remote has been resolved for the command of a
\* bridge, unix:<path> resolves to the local-pipe scheme with <path>
\* as host; http(s)://<host> to the networked scheme with <host>; a bare host
\* without ":" to host:8443; any other specification to itself.
C23_ResolveMaps ==
    broker_last.op = "get_websocat_command" =>
       /\ startswith(remote, UNIX) =>
             /\ get_scheme_and_host(remote).scheme = "https+unix"
             /\ get_scheme_and_host(remote).host = SubSeq(remote, 6, Len(remote))
       /\ ResolveNetworked

\* C23, amended: unix:<path> resolves to the local-pipe scheme with <path>:/
\* as host, the rest as stated; and nothing but the constructor assigns
\* self.remote, so that resolving again gives the same result.
C23_ResolveMapsEncoded ==
    /\ [](/\ startswith(remote, UNIX) =>
               /\ get_scheme_and_host(remote).scheme = "https+unix"
               /\ get_scheme_and_host(remote).host =
                      SubSeq(remote, 6, Len(remote)) \o <<":", "/">>
          /\ ResolveNetworked)
    /\ [][broker_last'.op # "init" => remote' = remote]_vars

\* The remote h:1 was resolved to build the command of a bridge.
C23_Witness ==
    /\ broker_last.op = "get_websocat_command"
    /\ remote = <<"h", ":", "1">>
    /\ broker_last.result.value[2] = <<"h", ":", "1">>

\* C24: constructing the broker of a bridge with an empty remote
\* specification, or with one that names no host, fails.
C24_EmptyRemoteRejected ==
    (/\ broker_last.op = "init"
     /\ broker_last.result.value \in {<<>>, HTTPS})
      => ~broker_last.result.ok

(***************************************************************************)
(* Further claims about supervision and the capture                        *)
(***************************************************************************)
\* C26: a bridge never gives up early.  A failure that is the first, second
\* or third in a row is followed by the backoff, never by the end of the
\* supervision, unless shutdown is requested; the backoff is followed by the
\* next attempt; a bridge that has given up has counted MAX_RETRIES + 1
\* failures in a row; and a bridge whose console request failed in every
\* attempt has given up after exactly MAX_RETRIES + 1 = 4 requests.
C26_NeverGivesUpEarly ==
    /\ [][\A b \in Bridges :
             (pc[b] = "Failed" /\ retry_count[b] < MAX_RETRIES /\ ~cancel_requested[b])
                => pc'[b] \in {"Failed", "Reaping", "Retrying"}]_vars
    /\ [][\A b \in Bridges :
             (retry_count'[b] # retry_count[b] /\ retry_count'[b] \in 1..MAX_RETRIES)
                => pc'[b] = "Retrying"]_vars
    /\ [](\A b \in Bridges :
             pc[b] = "GivenUp" =>
                /\ retry_count[b] = MAX_RETRIES + 1
                /\ (console_secret[b] = 0 => attempt[b] = MAX_RETRIES + 1))
    /\ \A b \in Bridges :
           (pc[b] = "Retrying" /\ attempt[b] < MaxAttempts)
               ~> (pc[b] = "Resolving" \/ cancel_requested[b])

\* C31: a supervised bridge has at most one live child.  No child is spawned
\* while the child of an earlier attempt is alive (none is left behind); when
\* an attempt spawns a child, the child of the previous attempt has exited;
\* and the failure handler acts only on the child created in the attempt that
\* failed, never on the child of an earlier attempt.
C31_OneChildOfThisAttempt ==
    /\ [](\A b \in Bridges : orphans[b] = 0)
    /\ [][\A b \in Bridges :
             (process'[b].attempt # process[b].attempt /\ Bound(b))
                => (~process[b].alive /\ process[b].returncode # <<>>)]_vars
    /\ [][\A b \in Bridges :
             (pc[b] = "Failed" /\ pc'[b] # "Failed" /\ Bound(b))
                => process[b].attempt = attempt[b]]_vars

\* C25: when the console client of a negotiation has run the stand-in and
\* the polling loop ends, the file the stand-in wrote is the file that was
\* polled, the call has not timed out, and the socket path it obtained is
\* the path the client passed.
C25_InvokedHelperIsCaptured ==
    [][\A t \in Threads :
         (threads[t].pc = "vga_poll" /\ threads[t].invoked /\ threads'[t].pc = "idle")
           => /\ capture_target(t) = threads[t].socket_log
              /\ last'.ret # [error |-> "Timeout waiting for socket path"]
              /\ ThreadInstance(t) \in DOMAIN socket_paths'
              /\ socket_paths'[ThreadInstance(t)] = SocketOf(ThreadInstance(t))]_vars

====
